---- MODULE Spec2Model ----
(***************************************************************************)
(* A model of computer_use_demo/tools/computer.py: the ComputerTool        *)
(* dispatcher (__call__, shell, screenshot), the resolution scaler         *)
(* (scale_coordinates, options) and the helpers chunks and sanitize_key.   *)
(*                                                                         *)
(* Python strings are sequences of one-character strings.  Python floats   *)
(* are exact rationals [n, d] in lowest terms with d > 0 (d = 0, n = 1 is  *)
(* float('inf')); round() is Python's round-half-to-even.  The quotients   *)
(* the code rounds have denominators of a few thousand at most, so a       *)
(* double differs from the rational by far less than the rational's        *)
(* distance to the nearest half-integer, unless it is one exactly; the     *)
(* two aspect ratios at which two targets are equally close, 22:15 and     *)
(* 6487:3840, compare as equal in doubles as well.                         *)
(***************************************************************************)
EXTENDS Integers, Sequences, FiniteSets, TLC

VARIABLES
    width, height,      \* self.width, self.height (real display)
    scaling_enabled,    \* ComputerTool._scaling_enabled
    pc,                 \* position of the running call
    action, text, coordinate,   \* the request of the running call
    log,                \* external commands run and sleeps, in order
    results,            \* results: list[ToolResult] of the type loop
    todo,               \* chunks the type loop has not yet sent
    shell_result,       \* stdout/stderr held by shell() across its awaits
    files,              \* which of the call's screenshot files exist
    outcome,            \* what the call returns or raises
    cmd,                \* command of the pending shell() call
    shot_result,        \* result of the capture command in screenshot()
    scaled,             \* last scale_coordinates(API, ..) call and result
    back,               \* scale_coordinates(COMPUTER, ..) of that result
    opts                \* last value of the options property

vars == <<width, height, scaling_enabled, pc, action, text, coordinate, log,
          results, todo, shell_result, files, outcome, cmd, shot_result,
          scaled, back, opts>>

----------------------------------------------------------------------------
(* Bounds of the model *)

MaxSmallDim == 24

MaxTextLen == 120

----------------------------------------------------------------------------
(* Module constants *)

TYPING_GROUP_SIZE == 50

screenshot_delay == 2

MAX_SCALING_TARGETS ==
    << [name |-> "XGA",   width |-> 1024, height |-> 768],
       [name |-> "WXGA",  width |-> 1280, height |-> 800],
       [name |-> "FWXGA", width |-> 1366, height |-> 768] >>

NoTarget == [name |-> "None", width |-> 0, height |-> 0]

\* Names bound at module level by the import statements.
ModuleNames ==
    {"asyncio", "base64", "os", "shlex", "shutil", "StrEnum", "Path",
     "Literal", "TypedDict", "uuid4", "pyautogui",
     "BetaToolComputerUse20241022Param", "BaseAnthropicTool", "ToolError",
     "ToolResult", "run"}

\* The Action literal.
Action ==
    {"key", "type", "mouse_move", "left_click", "left_click_drag",
     "right_click", "double_click", "screenshot", "cursor_position"}

----------------------------------------------------------------------------
(* Float arithmetic as exact rationals *)

Abs(a) == IF a < 0 THEN -a ELSE a

RECURSIVE Gcd(_, _)
Gcd(a, b) == IF b = 0 THEN a ELSE Gcd(b, a % b)

Rat(n, d) ==
    LET g == Gcd(Abs(n), Abs(d))
    IN  IF g = 0 THEN [n |-> 0, d |-> 1] ELSE [n |-> n \div g, d |-> d \div g]

Inf == [n |-> 1, d |-> 0]

RatAbsDiff(a, b) == Rat(Abs(a.n * b.d - b.n * a.d), a.d * b.d)

RatLess(a, b) == a.n * b.d < b.n * a.d

\* round(n / d) for d > 0, n >= 0: nearest integer, halves to the even one.
RoundHalfEven(n, d) ==
    LET q == n \div d
        r == n % d
    IN  IF 2 * r < d THEN q
        ELSE IF 2 * r > d THEN q + 1
        ELSE IF q % 2 = 0 THEN q ELSE q + 1

----------------------------------------------------------------------------
(* scale_coordinates *)

AspectRatioDiff(dimension, w, h) ==
    RatAbsDiff(Rat(dimension.width, dimension.height), Rat(w, h))

\* Mutant: the comparison is <= instead of <, so a later target that is
\* equally close replaces the earlier one.
RECURSIVE SelectTargetLastWins(_, _, _, _, _)
SelectTargetLastWins(i, min_aspect_ratio_diff, target_dimension, w, h) ==
    IF i > Len(MAX_SCALING_TARGETS) THEN target_dimension
    ELSE LET dimension == MAX_SCALING_TARGETS[i]
             aspect_ratio_diff == AspectRatioDiff(dimension, w, h)
         IN  IF ~RatLess(min_aspect_ratio_diff, aspect_ratio_diff)
             THEN SelectTargetLastWins(i + 1, aspect_ratio_diff, dimension,
                                       w, h)
             ELSE SelectTargetLastWins(i + 1, min_aspect_ratio_diff,
                                       target_dimension, w, h)

\* The loop over MAX_SCALING_TARGETS.items(), from its i-th item on.
RECURSIVE SelectTarget(_, _, _, _, _)
SelectTarget(i, min_aspect_ratio_diff, target_dimension, w, h) ==
    IF i > Len(MAX_SCALING_TARGETS) THEN target_dimension
    ELSE LET dimension == MAX_SCALING_TARGETS[i]
             aspect_ratio_diff == AspectRatioDiff(dimension, w, h)
         IN  IF RatLess(aspect_ratio_diff, min_aspect_ratio_diff)
             THEN SelectTarget(i + 1, aspect_ratio_diff, dimension, w, h)
             ELSE SelectTarget(i + 1, min_aspect_ratio_diff,
                               target_dimension, w, h)

TargetDimension(w, h) == SelectTarget(1, Inf, NoTarget, w, h)

\* Mutant: both directions scale down.
ScaleCoordinatesBothDown(enabled, w, h, source, x, y) ==
    IF ~enabled THEN [raised |-> FALSE, x |-> x, y |-> y]
    ELSE LET t == TargetDimension(w, h)
         IN  [raised |-> FALSE,
              x |-> RoundHalfEven(x * t.width, w),
              y |-> RoundHalfEven(y * t.height, h)]

\* scale_coordinates(source, x, y) on a tool with the given
\* _scaling_enabled, width and height.  raised: the bounds ToolError.
\* x_scaling_factor = t.width / w, so x / x_scaling_factor = x * w / t.width.
ScaleCoordinates(enabled, w, h, source, x, y) ==
    IF ~enabled THEN [raised |-> FALSE, x |-> x, y |-> y]
    ELSE LET t == TargetDimension(w, h)
         IN  IF t = NoTarget THEN [raised |-> FALSE, x |-> x, y |-> y]
             ELSE IF source = "api"
             THEN IF x > w \/ y > h
                  THEN [raised |-> TRUE, x |-> x, y |-> y]
                  ELSE [raised |-> FALSE,
                        x |-> RoundHalfEven(x * w, t.width),
                        y |-> RoundHalfEven(y * h, t.height)]
             ELSE [raised |-> FALSE,
                   x |-> RoundHalfEven(x * t.width, w),
                   y |-> RoundHalfEven(y * t.height, h)]

\* Mutant: the descriptor reports the physical size.
OptionsPhysical(enabled, w, h) ==
    [display_width_px |-> w, display_height_px |-> h]

\* The options property (display_number is read from the environment and
\* plays no part in the scaling).
Options(enabled, w, h) ==
    LET s == ScaleCoordinates(enabled, w, h, "computer", w, h)
    IN  [display_width_px |-> s.x, display_height_px |-> s.y]

----------------------------------------------------------------------------
(* Strings *)

UpperLetters ==
    <<"A", "B", "C", "D", "E", "F", "G", "H", "I", "J", "K", "L", "M",
      "N", "O", "P", "Q", "R", "S", "T", "U", "V", "W", "X", "Y", "Z">>

LowerLetters ==
    <<"a", "b", "c", "d", "e", "f", "g", "h", "i", "j", "k", "l", "m",
      "n", "o", "p", "q", "r", "s", "t", "u", "v", "w", "x", "y", "z">>

Digits == <<"0", "1", "2", "3", "4", "5", "6", "7", "8", "9">>

Range(f) == {f[i] : i \in DOMAIN f}

\* str.lower()
LowerChar(c) ==
    IF \E i \in DOMAIN UpperLetters : UpperLetters[i] = c
    THEN LowerLetters[CHOOSE i \in DOMAIN UpperLetters : UpperLetters[i] = c]
    ELSE c

Lower(s) == [i \in DOMAIN s |-> LowerChar(s[i])]

RECURSIVE Join(_)
Join(ss) == IF ss = <<>> THEN <<>> ELSE Head(ss) \o Join(Tail(ss))

sanitize_key(t) ==
    IF Lower(t) = <<"r", "e", "t", "u", "r", "n">>
    THEN <<"e", "n", "t", "e", "r">>
    ELSE t

\* The characters shlex.quote leaves alone: [a-zA-Z0-9_@%+=:,./-].
SafeChars ==
    Range(UpperLetters) \cup Range(LowerLetters) \cup Range(Digits)
        \cup {"_", "@", "%", "+", "=", ":", ",", ".", "/", "-"}

\* shlex.quote(s)
ShlexQuote(s) ==
    IF s = <<>> THEN <<"'", "'">>
    ELSE IF \A i \in DOMAIN s : s[i] \in SafeChars THEN s
    ELSE <<"'">>
         \o Join([i \in DOMAIN s |->
                    IF s[i] = "'" THEN <<"'", "\"", "'", "\"", "'">>
                    ELSE <<s[i]>>])
         \o <<"'">>

Min(a, b) == IF a < b THEN a ELSE b

\* Mutant: the slices are one character short (s[i : i + chunk_size - 1]).
chunks_short(s, chunk_size) ==
    [k \in 1..((Len(s) + chunk_size - 1) \div chunk_size) |->
        SubSeq(s, (k - 1) * chunk_size + 1,
               Min((k - 1) * chunk_size + chunk_size - 1, Len(s)))]

\* chunks(s, chunk_size): the slices s[i : i + chunk_size] for
\* i in range(0, len(s), chunk_size).
chunks(s, chunk_size) ==
    [k \in 1..((Len(s) + chunk_size - 1) \div chunk_size) |->
        SubSeq(s, (k - 1) * chunk_size + 1,
               Min((k - 1) * chunk_size + chunk_size, Len(s)))]

\* re.findall(r"\d+", s): the maximal runs of digits of s, in order.
RECURSIVE FindallDigits(_, _, _)
FindallDigits(s, cur, acc) ==
    IF s = <<>> THEN (IF cur = <<>> THEN acc ELSE Append(acc, cur))
    ELSE IF Head(s) \in Range(Digits)
    THEN FindallDigits(Tail(s), Append(cur, Head(s)), acc)
    ELSE FindallDigits(Tail(s), <<>>,
                       IF cur = <<>> THEN acc ELSE Append(acc, cur))

DigitValue(c) == (CHOOSE i \in DOMAIN Digits : Digits[i] = c) - 1

\* int(s) for a run of digits
RECURSIVE ParseInt(_)
ParseInt(s) ==
    IF s = <<>> THEN 0
    ELSE 10 * ParseInt(SubSeq(s, 1, Len(s) - 1)) + DigitValue(s[Len(s)])

\* str(n) for n >= 0
RECURSIVE IntToStr(_)
IntToStr(n) ==
    IF n < 10 THEN <<Digits[n + 1]>>
    ELSE IntToStr(n \div 10) \o <<Digits[(n % 10) + 1]>>

\* f"X={x},Y={y}"
FormatXY(x, y) ==
    <<"X", "=">> \o IntToStr(x) \o <<",", "Y", "=">> \o IntToStr(y)

----------------------------------------------------------------------------
(* Values of the request parameters, results and events *)

\* text: None, a str, or a value that is no str.
NoText == [given |-> FALSE, isStr |-> FALSE, chars |-> <<>>]
Str(s) == [given |-> TRUE, isStr |-> TRUE, chars |-> s]
NotAStr == [given |-> TRUE, isStr |-> FALSE, chars |-> <<>>]

\* coordinate: None, a list of items, or a value that is no list; an
\* item is an int v or a value that is no int.
NoCoordinate == [given |-> FALSE, isList |-> FALSE, items |-> <<>>]
IntItem(v) == [isInt |-> TRUE, v |-> v]
NotAnInt == [isInt |-> FALSE, v |-> 0]
List(items) == [given |-> TRUE, isList |-> TRUE, items |-> items]
NotAList(items) == [given |-> TRUE, isList |-> FALSE, items |-> items]

NoImage == <<>>

\* base64.b64encode(path.read_bytes()).decode() of the named file
Base64Image(path) == <<"base64", path>>

NoOutcome ==
    [kind |-> "none", msg |-> "", output |-> <<>>, error |-> <<>>,
     base64_image |-> NoImage]

Raised(kind, msg) ==
    [kind |-> kind, msg |-> msg, output |-> <<>>, error |-> <<>>,
     base64_image |-> NoImage]

ToolResult(output, error, base64_image) ==
    [kind |-> "result", msg |-> "", output |-> output, error |-> error,
     base64_image |-> base64_image]

\* What run(command) gives back: stdout and stderr.
NoRun == [stdout |-> <<>>, stderr |-> <<>>]

NoCmd == [op |-> "none", verb |-> "", x |-> 0, y |-> 0, arg |-> <<>>]

Cliclick(verb, x, y, arg) ==
    [op |-> "cliclick", verb |-> verb, x |-> x, y |-> y, arg |-> arg]

\* An entry of the log: the command (or the sleep) and what run returned.
Event(c, ro) ==
    [op |-> c.op, verb |-> c.verb, x |-> c.x, y |-> c.y, arg |-> c.arg,
     stdout |-> ro.stdout, stderr |-> ro.stderr]

SleepEvent ==
    Event([op |-> "sleep", verb |-> "", x |-> screenshot_delay, y |-> 0,
           arg |-> <<>>], NoRun)

\* The files of one screenshot() call: path and output_path.
PngPath == "screenshot.png"
ResizedPath == "screenshot.png.resized.png"

----------------------------------------------------------------------------
(* __call__: parameter validation *)

\* Mutant: the sign of the components is not checked.
ValidatePointerAnySign(t, c) ==
    IF ~c.given THEN "coordinate is required"
    ELSE IF t.given THEN "text is not accepted"
    ELSE IF ~c.isList \/ Len(c.items) # 2
    THEN "must be a tuple of length 2"
    ELSE IF ~(\A i \in DOMAIN c.items : c.items[i].isInt)
    THEN "must be a tuple of non-negative ints"
    ELSE "ok"

\* mouse_move, left_click_drag
ValidatePointer(t, c) ==
    IF ~c.given THEN "coordinate is required"
    ELSE IF t.given THEN "text is not accepted"
    ELSE IF ~c.isList \/ Len(c.items) # 2
    THEN "must be a tuple of length 2"
    ELSE IF ~(\A i \in DOMAIN c.items :
                c.items[i].isInt /\ c.items[i].v >= 0)
    THEN "must be a tuple of non-negative ints"
    ELSE "ok"

\* key, type
ValidateKeyboard(t, c) ==
    IF ~t.given THEN "text is required"
    ELSE IF c.given THEN "coordinate is not accepted"
    ELSE IF ~t.isStr THEN "must be a string"
    ELSE "ok"

\* left_click, right_click, double_click, middle_click, screenshot,
\* cursor_position
ValidateBare(t, c) ==
    IF t.given THEN "text is not accepted"
    ELSE IF c.given THEN "coordinate is not accepted"
    ELSE "ok"

\* The actions of the third group of __call__.
BareActions ==
    {"left_click", "right_click", "double_click", "middle_click",
     "screenshot", "cursor_position"}

\* The click_arg dict.
ClickArgKeys == {"right_click", "left_click", "double_click"}

ClickArg(a) ==
    IF a = "right_click" THEN "rc" ELSE IF a = "left_click" THEN "c" ELSE "dc"

----------------------------------------------------------------------------
(* The dispatcher: one call of the tool at a time *)

scaleVars == <<scaled, back, opts>>
toolVars == <<width, height, scaling_enabled>>

\* The call raises before its first await.
Raise(kind, msg) ==
    /\ pc' = "done"
    /\ outcome' = Raised(kind, msg)
    /\ cmd' = NoCmd
    /\ todo' = <<>>

\* The call reaches `await self.shell(command)` with take_screenshot=True.
StartShell(command) ==
    /\ pc' = "shell"
    /\ outcome' = NoOutcome
    /\ cmd' = command
    /\ todo' = <<>>

\* __call__ from its entry to its first await or its first raise.
Call(a, t, c) ==
    /\ pc = "idle"
    /\ action' = a
    /\ text' = t
    /\ coordinate' = c
    /\ log' = <<>>
    /\ results' = <<>>
    /\ files' = {}
    /\ shell_result' = NoRun
    /\ shot_result' = NoRun
    /\ IF a \in {"mouse_move", "left_click_drag"}
       THEN IF ValidatePointer(t, c) # "ok"
            THEN Raise("ToolError", ValidatePointer(t, c))
            ELSE LET s == ScaleCoordinates(scaling_enabled, width, height,
                                           "api", c.items[1].v, c.items[2].v)
                 IN  IF s.raised THEN Raise("ToolError", "out of bounds")
                     ELSE IF a = "mouse_move"
                     THEN StartShell(Cliclick("m", s.x, s.y, <<>>))
                     ELSE StartShell(Cliclick("dd:1 m du:1", s.x, s.y, <<>>))
       ELSE IF a \in {"key", "type"}
       THEN IF ValidateKeyboard(t, c) # "ok"
            THEN Raise("ToolError", ValidateKeyboard(t, c))
            ELSE IF a = "key"
            THEN StartShell(Cliclick("kp", 0, 0, sanitize_key(t.chars)))
            ELSE /\ todo' = chunks(t.chars, TYPING_GROUP_SIZE)
                 /\ pc' = IF chunks(t.chars, TYPING_GROUP_SIZE) = <<>>
                          THEN "capture" ELSE "type"
                 /\ outcome' = NoOutcome
                 /\ cmd' = NoCmd
       ELSE IF a \in BareActions
       THEN IF ValidateBare(t, c) # "ok"
            THEN Raise("ToolError", ValidateBare(t, c))
            ELSE IF a = "screenshot"
            THEN /\ pc' = "capture"
                 /\ outcome' = NoOutcome
                 /\ cmd' = NoCmd
                 /\ todo' = <<>>
            ELSE IF a = "cursor_position"
            THEN /\ pc' = "cursor"
                 /\ outcome' = NoOutcome
                 /\ cmd' = Cliclick("p", 0, 0, <<>>)
                 /\ todo' = <<>>
            ELSE IF a \in ClickArgKeys
            THEN StartShell(Cliclick(ClickArg(a), 0, 0, <<".">>))
            ELSE Raise("KeyError", a)
       ELSE Raise("ToolError", "Invalid action")
    /\ UNCHANGED <<toolVars, scaleVars>>

\* shell(command, take_screenshot=True): run returns; the sleep is next.
Shell(ro) ==
    /\ pc = "shell"
    /\ log' = Append(log, Event(cmd, ro))
    /\ shell_result' = ro
    /\ pc' = "sleep"
    /\ UNCHANGED <<toolVars, scaleVars, action, text, coordinate, results,
                   todo, files, outcome, cmd, shot_result>>

\* await asyncio.sleep(self._screenshot_delay) returns.
Sleep ==
    /\ pc = "sleep"
    /\ log' = Append(log, SleepEvent)
    /\ pc' = "capture"
    /\ UNCHANGED <<toolVars, scaleVars, action, text, coordinate, results,
                   todo, files, outcome, cmd, shell_result, shot_result>>

\* One turn of the type loop: the chunk's command returns.
TypeChunk(ro) ==
    /\ pc = "type"
    /\ todo # <<>>
    /\ log' = Append(log,
                     Event(Cliclick("t", 0, 0, ShlexQuote(Head(todo))), ro))
    /\ results' = Append(results, ToolResult(ro.stdout, ro.stderr, NoImage))
    /\ todo' = Tail(todo)
    /\ pc' = IF Tail(todo) = <<>> THEN "capture" ELSE "type"
    /\ UNCHANGED <<toolVars, scaleVars, action, text, coordinate, files,
                   outcome, cmd, shell_result, shot_result>>

\* cursor_position: `cliclick p` returns and the rest of the branch runs.
CursorPosition(ro) ==
    /\ pc = "cursor"
    /\ log' = Append(log, Event(cmd, ro))
    /\ shell_result' = ro
    /\ pc' = "done"
    /\ outcome' =
         IF "re" \notin ModuleNames THEN Raised("NameError", "re")
         ELSE LET found == FindallDigits(ro.stdout, <<>>, <<>>)
              IN  IF Len(found) # 2 THEN Raised("ValueError", "unpack")
                  ELSE LET s == ScaleCoordinates(scaling_enabled, width,
                                    height, "computer", ParseInt(found[1]),
                                    ParseInt(found[2]))
                       IN  ToolResult(FormatXY(s.x, s.y), ro.stderr, NoImage)
    /\ UNCHANGED <<toolVars, scaleVars, action, text, coordinate, results,
                   todo, files, cmd, shot_result>>

\* Mutant: the original capture is always the file looked for.
ScreenshotPathOriginal(enabled) == PngPath

\* The file screenshot() reads: output_path with scaling, else path.
ScreenshotPath(enabled) == IF enabled THEN ResizedPath ELSE PngPath

\* The ToolResult the type branch returns.
TypeResult(rs, image) ==
    ToolResult(Join([i \in DOMAIN rs |-> rs[i].output]),
               Join([i \in DOMAIN rs |-> rs[i].error]), image)

\* screenshot() from `if path.exists()` on, and the return of its caller.
ScreenshotEnds(fs, shot) ==
    /\ pc' = "done"
    /\ outcome' =
         IF ScreenshotPath(scaling_enabled) \notin fs
         THEN Raised("ToolError", "Failed to take screenshot")
         ELSE LET image == Base64Image(ScreenshotPath(scaling_enabled))
              IN  IF action = "screenshot"
                  THEN ToolResult(shot.stdout, shot.stderr, image)
                  ELSE IF action = "type" THEN TypeResult(results, image)
                  ELSE ToolResult(shell_result.stdout, shell_result.stderr,
                                  image)

\* screenshot(): the screencapture command returns, having written the
\* file or not.
Capture(ro, written) ==
    /\ pc = "capture"
    /\ log' = Append(log,
                     Event([op |-> "screencapture", verb |-> "-C -x", x |-> 0,
                            y |-> 0, arg |-> <<PngPath>>], ro))
    /\ shot_result' = ro
    /\ files' = IF written THEN {PngPath} ELSE {}
    /\ IF scaling_enabled
       THEN /\ pc' = "resize"
            /\ UNCHANGED outcome
       ELSE ScreenshotEnds(files', ro)
    /\ UNCHANGED <<toolVars, scaleVars, action, text, coordinate, results,
                   todo, cmd, shell_result>>

\* screenshot(): the sips command returns; it writes the resized copy
\* only from an existing capture, and may fail.
Resize(written) ==
    /\ pc = "resize"
    /\ LET s == ScaleCoordinates(scaling_enabled, width, height, "computer",
                                 width, height)
       IN  log' = Append(log,
                         Event([op |-> "sips", verb |-> "-z", x |-> s.x,
                                y |-> s.y, arg |-> <<PngPath, ResizedPath>>],
                               NoRun))
    /\ files' = IF written /\ PngPath \in files
                THEN files \cup {ResizedPath} ELSE files
    /\ ScreenshotEnds(files', shot_result)
    /\ UNCHANGED <<toolVars, scaleVars, action, text, coordinate, results,
                   todo, cmd, shell_result, shot_result>>

\* The caller receives the outcome; the tool is ready for the next call.
Return ==
    /\ pc = "done"
    /\ pc' = "idle"
    /\ action' = "none"
    /\ text' = NoText
    /\ coordinate' = NoCoordinate
    /\ log' = <<>>
    /\ results' = <<>>
    /\ todo' = <<>>
    /\ shell_result' = NoRun
    /\ shot_result' = NoRun
    /\ files' = {}
    /\ outcome' = NoOutcome
    /\ cmd' = NoCmd
    /\ UNCHANGED <<toolVars, scaleVars>>

----------------------------------------------------------------------------
(* Requests and environment answers the model explores *)

\* Real displays the tool is constructed on.
Displays == {<<1920, 1200>>, <<1920, 1080>>, <<1024, 768>>, <<800, 600>>}

AllActions == Action \cup {"middle_click", "scroll"}

TextAlphabet == <<"a", "b", " ", "c", "'", "d", "e">>

TextOfLen(n) ==
    [i \in 1..n |-> TextAlphabet[((i - 1) % Len(TextAlphabet)) + 1]]

\* Lengths at and around the multiples of the chunk size, and the longest.
TextLens ==
    {n \in 0..MaxTextLen :
        \/ n % TYPING_GROUP_SIZE \in {0, 1, TYPING_GROUP_SIZE - 1}
        \/ n = MaxTextLen}

Texts ==
    {NoText, NotAStr, Str(<<"R", "e", "t", "u", "r", "n">>),
     Str(<<"r", "e", "t", "u", "r", "n">>)}
        \cup {Str(TextOfLen(n)) : n \in TextLens}

Coordinates(w, h) ==
    {NoCoordinate,
     List(<<>>), List(<<IntItem(5)>>),
     List(<<IntItem(5), IntItem(6), IntItem(7)>>),
     NotAList(<<IntItem(5), IntItem(6)>>),
     List(<<IntItem(-1), IntItem(6)>>), List(<<IntItem(5), IntItem(-1)>>),
     List(<<IntItem(5), NotAnInt>>)}
        \cup {List(<<IntItem(x), IntItem(y)>>) :
                x \in {0, 1, 1024, 1280, 1281, w, w + 1},
                y \in {0, 768, h, h + 1}}

\* stdout and stderr of a cliclick or screencapture run.
RunOutcomes ==
    {[stdout |-> <<"a">>, stderr |-> <<>>],
     [stdout |-> <<"b">>, stderr |-> <<>>],
     [stdout |-> <<>>, stderr |-> <<"e">>]}

\* stdout and stderr of `cliclick p`.
CursorOutcomes ==
    {[stdout |-> <<"7", "0", "4", ",", "5", "9", "9">>, stderr |-> <<>>],
     [stdout |-> <<"0", ",", "0">>, stderr |-> <<>>],
     [stdout |-> <<>>, stderr |-> <<"e">>]}

NoScaled ==
    [called |-> FALSE, x |-> 0, y |-> 0, raised |-> FALSE, rx |-> 0,
     ry |-> 0, target_dimension |-> NoTarget]

NoBack == [called |-> FALSE, x |-> 0, y |-> 0]

NoOpts == [called |-> FALSE, display_width_px |-> 0, display_height_px |-> 0]

IdleCall ==
    /\ action = "none"
    /\ text = NoText
    /\ coordinate = NoCoordinate
    /\ log = <<>>
    /\ results = <<>>
    /\ todo = <<>>
    /\ shell_result = NoRun
    /\ shot_result = NoRun
    /\ files = {}
    /\ outcome = NoOutcome
    /\ cmd = NoCmd

\* After __init__: the size is the one the OS reports; no call is running.
Init ==
    /\ \E d \in Displays : width = d[1] /\ height = d[2]
    /\ scaling_enabled \in BOOLEAN
    /\ pc = "idle"
    /\ IdleCall
    /\ scaled = NoScaled
    /\ back = NoBack
    /\ opts = NoOpts

Next ==
    \/ /\ pc = "idle"
       /\ \E a \in AllActions, t \in Texts,
                c \in Coordinates(width, height) : Call(a, t, c)
    \/ \E ro \in RunOutcomes : Shell(ro)
    \/ Sleep
    \/ \E ro \in RunOutcomes : TypeChunk(ro)
    \/ \E ro \in CursorOutcomes : CursorPosition(ro)
    \/ \E ro \in RunOutcomes, written \in BOOLEAN : Capture(ro, written)
    \/ \E written \in BOOLEAN : Resize(written)
    \/ Return

Spec == Init /\ [][Next]_vars

----------------------------------------------------------------------------
(* scale_coordinates and options as functions of the display and a point *)

ScaleDisplays ==
    {<<1920, 1200>>, <<1920, 1080>>, <<2560, 1440>>, <<1440, 900>>,
     <<1512, 982>>, <<1024, 768>>, <<1320, 900>>, <<800, 600>>,
     <<320, 240>>}
        \cup {<<w, h>> : w \in 1..MaxSmallDim, h \in 1..MaxSmallDim}

\* The points of the two diagonals of the display (every x and, on a
\* landscape display, every y occurs) and the points just outside it.
Points(w, h) ==
    {<<x, (x * h) \div w>> : x \in 0..(w + 1)}
        \cup {<<x, h - ((x * h) \div w)>> : x \in 0..w}
        \cup {<<(y * w) \div h, y>> : y \in 0..(h + 1)}

callVars ==
    <<pc, action, text, coordinate, log, results, todo, shell_result,
      files, outcome, cmd, shot_result>>

InitScale ==
    /\ \E d \in ScaleDisplays : width = d[1] /\ height = d[2]
    /\ scaling_enabled \in BOOLEAN
    /\ pc = "scale"
    /\ IdleCall
    /\ scaled = NoScaled
    /\ back = NoBack
    /\ opts = NoOpts

\* scale_coordinates(ScalingSource.API, x, y)
ScaleFromApi(x, y) ==
    /\ pc = "scale"
    /\ ~scaled.called
    /\ ~opts.called
    /\ LET s == ScaleCoordinates(scaling_enabled, width, height, "api", x, y)
       IN  scaled' = [called |-> TRUE, x |-> x, y |-> y,
                      raised |-> s.raised, rx |-> s.x, ry |-> s.y,
                      target_dimension |->
                          IF scaling_enabled
                          THEN TargetDimension(width, height) ELSE NoTarget]
    /\ UNCHANGED <<toolVars, callVars, back, opts>>

\* scale_coordinates(ScalingSource.COMPUTER, ..) of the point just scaled
ScaleFromComputer ==
    /\ pc = "scale"
    /\ scaled.called
    /\ ~scaled.raised
    /\ ~back.called
    /\ LET s == ScaleCoordinates(scaling_enabled, width, height, "computer",
                                 scaled.rx, scaled.ry)
       IN  back' = [called |-> TRUE, x |-> s.x, y |-> s.y]
    /\ UNCHANGED <<toolVars, callVars, scaled, opts>>

\* The options property is read.
GetOptions ==
    /\ pc = "scale"
    /\ ~scaled.called
    /\ ~opts.called
    /\ LET o == Options(scaling_enabled, width, height)
       IN  opts' = [called |-> TRUE,
                    display_width_px |-> o.display_width_px,
                    display_height_px |-> o.display_height_px]
    /\ UNCHANGED <<toolVars, callVars, scaled, back>>

NextScale ==
    \/ /\ ~scaled.called
       /\ \E p \in Points(width, height) : ScaleFromApi(p[1], p[2])
    \/ ScaleFromComputer
    \/ GetOptions

SpecScale == InitScale /\ [][NextScale]_vars

----------------------------------------------------------------------------
(* Properties of the scaler, under SpecScale *)

\* The k-th standard resolution is at least as close in aspect ratio to
\* the real display as every other, and strictly closer than every
\* earlier one.
ClosestFirst(k) ==
    /\ \A j \in DOMAIN MAX_SCALING_TARGETS :
          ~RatLess(AspectRatioDiff(MAX_SCALING_TARGETS[j], width, height),
                   AspectRatioDiff(MAX_SCALING_TARGETS[k], width, height))
    /\ \A j \in 1..(k - 1) :
          RatLess(AspectRatioDiff(MAX_SCALING_TARGETS[k], width, height),
                  AspectRatioDiff(MAX_SCALING_TARGETS[j], width, height))

InRealBounds == scaled.x <= width /\ scaled.y <= height

WithinOne ==
    /\ ~scaled.raised
    /\ back.called =>
          /\ Abs(back.x - scaled.x) <= 1
          /\ Abs(back.y - scaled.y) <= 1

\* C1 as stated: with scaling enabled, on every real display, a point
\* within the real bounds scaled API -> real and back real -> API comes
\* back within 1 of itself on each axis.
C1_RoundTripAnyDisplay ==
    (scaling_enabled /\ scaled.called /\ InRealBounds) => WithinOne

\* C1 amended: the same, on real displays at least as wide and as high as
\* the selected standard resolution (scale factors at most 1).
C1_RoundTripLargeDisplay ==
    (/\ scaling_enabled
     /\ scaled.called
     /\ InRealBounds
     /\ width >= scaled.target_dimension.width
     /\ height >= scaled.target_dimension.height) => WithinOne

C1_Witness ==
    /\ scaling_enabled
    /\ back.called
    /\ width > scaled.target_dimension.width
    /\ height > scaled.target_dimension.height
    /\ scaled.x = width
    /\ scaled.y > 0
    /\ scaled.rx > scaled.x
    /\ back.x = scaled.x
    /\ back.y = scaled.y

\* C3: with scaling enabled, scale_coordinates uses the standard
\* resolution whose aspect ratio is closest to the real display's, the
\* earliest in enumeration order among equally close ones; a 1920x1200
\* display gets 1280x800.
C3_ClosestTargetFirstWins ==
    (scaling_enabled /\ scaled.called) =>
        /\ \E k \in DOMAIN MAX_SCALING_TARGETS :
              /\ ClosestFirst(k)
              /\ scaled.target_dimension = MAX_SCALING_TARGETS[k]
        /\ (width = 1920 /\ height = 1200) =>
              /\ scaled.target_dimension.width = 1280
              /\ scaled.target_dimension.height = 800

\* A display whose ratio is equally far from XGA and WXGA: XGA is used.
C3_Witness ==
    /\ scaling_enabled
    /\ scaled.called
    /\ AspectRatioDiff(MAX_SCALING_TARGETS[1], width, height)
         = AspectRatioDiff(MAX_SCALING_TARGETS[2], width, height)
    /\ scaled.target_dimension.name = "XGA"

\* C8: with scaling enabled, options reports exactly the width and height
\* of the selected standard resolution, not the physical size.
C8_OptionsReportTarget ==
    (scaling_enabled /\ opts.called) =>
        \E k \in DOMAIN MAX_SCALING_TARGETS :
            /\ ClosestFirst(k)
            /\ opts.display_width_px = MAX_SCALING_TARGETS[k].width
            /\ opts.display_height_px = MAX_SCALING_TARGETS[k].height

C8_Witness ==
    /\ scaling_enabled
    /\ opts.called
    /\ width = 1920
    /\ height = 1080
    /\ opts.display_width_px = 1366
    /\ opts.display_height_px = 768

----------------------------------------------------------------------------
(* Properties of the dispatcher, under Spec *)

Commands == {i \in DOMAIN log : log[i].op # "sleep"}

Captures == {i \in DOMAIN log : log[i].op = "screencapture"}

Rejected == pc = "done" /\ outcome.kind = "ToolError" /\ Commands = {}

PointerActions == {"mouse_move", "left_click_drag"}

\* A coordinate that is a two-element list of non-negative ints.
GoodPoint(c) ==
    /\ c.given
    /\ c.isList
    /\ Len(c.items) = 2
    /\ \A i \in DOMAIN c.items : c.items[i].isInt /\ c.items[i].v >= 0

\* The request breaks the parameter rules of its action.
BreaksParameterRules ==
    \/ /\ action \in PointerActions
       /\ (~coordinate.given \/ text.given \/ ~GoodPoint(coordinate))
    \/ /\ action \in {"key", "type"}
       /\ (~text.given \/ coordinate.given)
    \/ /\ action \in {"left_click", "right_click", "double_click",
                      "screenshot", "cursor_position"}
       /\ (text.given \/ coordinate.given)

\* C2: with scaling enabled, a mouse_move or left_click_drag whose API x
\* exceeds the declared display width (options' display_width_px) fails
\* with the bounds ToolError and no external command is run.
C2_BoundsErrorBeyondDeclaredWidth ==
    (/\ scaling_enabled
     /\ action \in PointerActions
     /\ ~text.given
     /\ GoodPoint(coordinate)
     /\ coordinate.items[1].v
          > Options(scaling_enabled, width, height).display_width_px)
        => (Rejected /\ outcome.msg = "out of bounds")

\* C4: a request that breaks the parameter rules of its action is
\* rejected with a ToolError and no external command is executed during
\* the call.
C4_RuleBreakersRejected == BreaksParameterRules => Rejected

C4_Witness ==
    /\ action = "mouse_move"
    /\ ~text.given
    /\ coordinate = List(<<IntItem(-1), IntItem(6)>>)
    /\ Rejected

TypeRequest ==
    action = "type" /\ text.given /\ text.isStr /\ ~coordinate.given

\* ceil(n / TYPING_GROUP_SIZE) for the text of the request
ChunkCount ==
    (Len(text.chars) + TYPING_GROUP_SIZE - 1) \div TYPING_GROUP_SIZE

\* Characters (k-1)*50+1 .. min(k*50, n) of the text of the request.
TextSlice(k) ==
    SubSeq(text.chars, (k - 1) * TYPING_GROUP_SIZE + 1,
           Min(k * TYPING_GROUP_SIZE, Len(text.chars)))

\* C5: a type request with a text of n characters issues exactly
\* ceil(n/50) typing commands, the k-th for the k-th 50-character slice of
\* the text (the last slice may be shorter); the output returned is the
\* chunk outputs joined in that order; and exactly one screen capture is
\* performed, after the last typing command.
C5_TypeInChunks ==
    TypeRequest =>
        /\ \A i \in DOMAIN log : log[i].op = "cliclick" =>
              /\ i <= ChunkCount
              /\ \A j \in 1..i : log[j].op = "cliclick"
              /\ log[i].verb = "t"
              /\ log[i].arg = ShlexQuote(TextSlice(i))
              /\ Len(TextSlice(i)) <= TYPING_GROUP_SIZE
              /\ i < ChunkCount => Len(TextSlice(i)) = TYPING_GROUP_SIZE
        /\ Join([k \in 1..ChunkCount |-> TextSlice(k)]) = text.chars
        /\ Cardinality(Captures) <= 1
        /\ \A i \in Captures : i = ChunkCount + 1
        /\ pc = "done" =>
              /\ Cardinality({i \in DOMAIN log : log[i].op = "cliclick"})
                   = ChunkCount
              /\ Cardinality(Captures) = 1
              /\ outcome.kind = "result" =>
                    outcome.output
                      = Join([k \in 1..ChunkCount |-> log[k].stdout])

\* 120 characters: chunks of 50, 50 and 20, outputs a, b, a joined.
C5_Witness ==
    /\ TypeRequest
    /\ pc = "done"
    /\ Len(text.chars) = 120
    /\ Len(log[1].arg) > 50
    /\ Len(TextSlice(3)) = 20
    /\ outcome.kind = "result"
    /\ outcome.output = <<"a", "b", "a">>
    /\ Captures = {4}

\* C6: a request whose action is none of the nine enumerated ones fails
\* with the ToolError 'Invalid action', and with nothing else.
C6_InvalidActionUniformError ==
    (pc = "done" /\ action \notin Action) =>
        (outcome.kind = "ToolError" /\ outcome.msg = "Invalid action")

\* C7: cursor_position with no text and no coordinate, when the utility
\* prints 'a,b', returns the output 'X=x,Y=y' with (x, y) the point (a, b)
\* scaled real -> API, and performs no screen capture.
C7_CursorPositionReported ==
    (/\ pc = "done"
     /\ action = "cursor_position"
     /\ ~text.given
     /\ ~coordinate.given
     /\ Len(FindallDigits(log[1].stdout, <<>>, <<>>)) = 2) =>
        LET found == FindallDigits(log[1].stdout, <<>>, <<>>)
            s == ScaleCoordinates(scaling_enabled, width, height, "computer",
                                  ParseInt(found[1]), ParseInt(found[2]))
        IN  /\ outcome.kind = "result"
            /\ outcome.output = FormatXY(s.x, s.y)
            /\ Captures = {}

\* The file screenshot() is expected to leave behind.
ExpectedFile == IF scaling_enabled THEN ResizedPath ELSE PngPath

ScreenshotFailed ==
    outcome.kind = "ToolError" /\ outcome.msg = "Failed to take screenshot"

\* C9: screenshot() raises ToolError whenever the expected file (the
\* resized copy with scaling enabled) is absent after the capture command
\* has run; an image is returned only when that file exists; the error is
\* raised only after the capture command was attempted.
C9_ScreenshotNeedsFile ==
    /\ (pc = "done" /\ Captures # {} /\ ExpectedFile \notin files)
          => ScreenshotFailed
    /\ (outcome.kind = "result" /\ outcome.base64_image # NoImage)
          => /\ ExpectedFile \in files
             /\ outcome.base64_image = Base64Image(ExpectedFile)
    /\ ScreenshotFailed => Captures # {}

\* The capture succeeded and the resize failed.
C9_Witness ==
    /\ scaling_enabled
    /\ pc = "done"
    /\ action = "screenshot"
    /\ files = {PngPath}
    /\ \E i \in DOMAIN log : log[i].op = "sips"
    /\ ScreenshotFailed

\* C10: in a call of key, type, mouse_move, left_click_drag, left_click,
\* right_click or double_click, every screen capture is directly preceded
\* by the settle delay, which follows the last input command.
C10_SettleDelayBeforeCapture ==
    action \in {"key", "type", "mouse_move", "left_click_drag", "left_click",
                "right_click", "double_click"} =>
        \A i \in Captures :
            /\ i > 1
            /\ log[i - 1].op = "sleep"
            /\ \A j \in i..Len(log) : log[j].op # "cliclick"

====
